---- MODULE Spec2Model ----
(***************************************************************************)
(* Cloneable<Derived>::clone() and Cloneable<Derived>::clone_() of         *)
(* torch/csrc/api/include/torch/nn/cloneable.h, as a state machine over a  *)
(* heap of module objects and tensor storages.                             *)
(*                                                                         *)
(* A module object is a record [type, params, buffers, children]: params   *)
(* and buffers map a name to the id of a tensor storage, children maps a   *)
(* name to the id of a module object.  clone() is recursive, so the        *)
(* machine keeps the call stack explicitly: one frame per active clone()   *)
(* or clone_() call, each with its own program counter.                    *)
(***************************************************************************)
EXTENDS Naturals, Sequences, FiniteSets, TLC

VARIABLES
  mods,      \* heap of module objects: Seq of [type, params, buffers, children]
  tens,      \* heap of tensor storages: Seq of data values
  stack,     \* call stack, top = last frame
  outcome,   \* "idle" | "running" | "ok" | "StructuralMismatch" | "TypeMismatch" | "NoSuchKey"
  errCat,    \* category named by a StructuralMismatch: "parameters" | "buffers" | "children"
  result,    \* module id returned by the last clone() call, 0 if none
  callSrc,   \* module the running / last root clone() was called on
  snapMods,  \* ghost: mods when the running / last root clone() was called
  snapTens,  \* ghost: tens when the running / last root clone() was called
  copied,    \* ghost: copy_ calls performed since the root clone() was called
  errCopies, \* ghost: copy_ calls the raising clone() call had performed itself
  errDepth,  \* ghost: number of frames unwound by the last raise
  written,   \* ghost: tensor storages written by the user since the last root clone()
  nclones,   \* root clone() calls so far
  nwrites    \* user writes so far

vars == <<mods, tens, stack, outcome, errCat, result, callSrc, snapMods,
          snapTens, copied, errCopies, errDepth, written, nclones, nwrites>>

----------------------------------------------------------------------------
(* Bounds of the model.                                                    *)

MaxDepth == 2    \* depth of the original module tree
MaxClones == 2   \* root clone() calls in one behaviour
MaxWrites == 1   \* user writes to tensors in one behaviour
MaxVal == 1      \* the user writes data values 0..MaxVal

----------------------------------------------------------------------------
(* The concrete module types (the Derived classes) and what the reset() of *)
(* each registers.  Linear and Container are the types of the scenarios;   *)
(* BatchNorm adds a buffer, Net a third level, Pair a second child.        *)

Types == {"Linear", "BatchNorm", "Container", "Net", "Pair"}
PNames == {"weight", "bias"}
BNames == {"mean"}
CName == "inner"
CName2 == "aux"

Empty == [x \in {} |-> 0]

ResetParams(t) ==
  CASE t = "Linear" -> {"weight", "bias"}
    [] t = "BatchNorm" -> {"weight"}
    [] OTHER -> {}

ResetBuffers(t) ==
  CASE t = "BatchNorm" -> {"mean"}
    [] t = "Net" -> {"mean"}
    [] OTHER -> {}

\* the children reset() registers: name |-> concrete type
ResetChildren(t) ==
  CASE t = "Container" -> (CName :> "Linear")
    [] t = "Net" -> (CName :> "Container")
    [] t = "Pair" -> (CName :> "Linear") @@ (CName2 :> "BatchNorm")
    [] OTHER -> Empty

\* the value a tensor freshly created by reset() holds
FreshVal == 0

\* registration order of names within one mapping
Rank(n) == IF n \in {"bias", "aux"} THEN 2 ELSE 1

\* fresh storage ids base+1.. for the names, in registration order
Alloc(names, base) ==
  [n \in names |-> base + Cardinality({m \in names : Rank(m) <= Rank(n)})]

Size(map) == Cardinality(DOMAIN map)

----------------------------------------------------------------------------
(* The original tree.  Either a chain of at most MaxDepth modules, each    *)
(* the child CName of the one before, or a Pair with the two children      *)
(* CName and CName2.  Every module but the Pair at the root is of any      *)
(* other type and has any registered parameter and buffer names (a         *)
(* constructor may register other names than reset() does, and a child may *)
(* be of another type than the one reset() registers).  No tensor is       *)
(* registered twice.                                                       *)

Local == [type : Types \ {"Pair"}, ps : SUBSET PNames, bs : SUBSET BNames]
PairRoot == [type |-> "Pair", ps |-> {}, bs |-> {}]

RECURSIVE TBase(_, _)
TBase(cfg, i) ==
  IF i = 1 THEN 0
  ELSE TBase(cfg, i - 1) + Cardinality(cfg[i-1].ps) + Cardinality(cfg[i-1].bs)

\* the original's tensors hold data that differ from each other and from
\* what reset() initialises a tensor with
SrcData(t) == t

BuildMods(cfg) ==
  [i \in 1..Len(cfg) |->
     [type |-> cfg[i].type,
      params |-> Alloc(cfg[i].ps, TBase(cfg, i)),
      buffers |-> Alloc(cfg[i].bs, TBase(cfg, i) + Cardinality(cfg[i].ps)),
      children |-> IF cfg[1] = PairRoot
                   THEN (IF i = 1 THEN Alloc({CName, CName2}, 1) ELSE Empty)
                   ELSE (IF i < Len(cfg) THEN Alloc({CName}, i) ELSE Empty)]]

BuildTens(cfg) ==
  [t \in 1..TBase(cfg, Len(cfg) + 1) |-> SrcData(t)]

Shapes ==
  UNION {[1..k -> Local] : k \in 1..MaxDepth}
    \cup {<<PairRoot, a, b>> : a \in Local, b \in Local}

Init ==
  /\ \E cfg \in Shapes :
       /\ mods = BuildMods(cfg)
       /\ tens = BuildTens(cfg)
       /\ snapMods = BuildMods(cfg)
       /\ snapTens = BuildTens(cfg)
  /\ stack = <<>>
  /\ outcome = "idle"
  /\ errCat = "none"
  /\ result = 0
  /\ callSrc = 1
  /\ copied = 0
  /\ errCopies = 0
  /\ errDepth = 0
  /\ written = {}
  /\ nclones = 0
  /\ nwrites = 0

----------------------------------------------------------------------------
(* Heap helpers.                                                           *)

Range(f) == {f[x] : x \in DOMAIN f}

\* OrderedDict lookup: operator[] finds the entry registered under key
HasKey(map, key) == key \in DOMAIN map

\* register_parameter / register_buffer / register_module: add entries
Register(old, new) ==
  [n \in (DOMAIN old) \cup (DOMAIN new) |-> IF n \in DOMAIN new THEN new[n] ELSE old[n]]

\* module ids of the tree rooted at module i
RECURSIVE Desc(_, _)
Desc(ms, i) ==
  {i} \cup UNION {Desc(ms, ms[i].children[c]) : c \in DOMAIN ms[i].children}

\* tensor storages owned by the tree rooted at module i
TensorsOf(ms, i) ==
  UNION {Range(ms[d].params) \cup Range(ms[d].buffers) : d \in Desc(ms, i)}

\* A newly constructed module of type t: its constructor runs reset(), which
\* registers fresh tensors and newly constructed children.
RECURSIVE Construct(_, _, _)
RECURSIVE ConstructChildren(_, _, _, _)
ConstructChildren(ms, ts, want, done) ==
  IF DOMAIN want = DOMAIN done THEN [m |-> ms, t |-> ts, ch |-> done]
  ELSE LET c == CHOOSE x \in DOMAIN want \ DOMAIN done :
                  \A y \in DOMAIN want \ DOMAIN done : Rank(x) <= Rank(y)
           r == Construct(ms, ts, want[c])
       IN ConstructChildren(r.m, r.t, want, done @@ (c :> r.id))
Construct(ms, ts, t) ==
  LET sub == ConstructChildren(ms, ts, ResetChildren(t), Empty)
      np == Cardinality(ResetParams(t))
      nb == Cardinality(ResetBuffers(t))
      node == [type |-> t,
               params |-> Alloc(ResetParams(t), Len(sub.t)),
               buffers |-> Alloc(ResetBuffers(t), Len(sub.t) + np),
               children |-> sub.ch]
  IN [m |-> Append(sub.m, node),
      t |-> sub.t \o [i \in 1..(np + nb) |-> FreshVal],
      id |-> Len(sub.m) + 1]

\* copy->reset(): re-populate the three mappings of module c
ResetInto(ms, ts, c) ==
  LET r == Construct(ms, ts, ms[c].type)
      fresh == r.m[r.id]
  IN [m |-> [i \in 1..(Len(r.m) - 1) |->
               IF i = c
               THEN [type |-> ms[c].type,
                     params |-> Register(ms[c].params, fresh.params),
                     buffers |-> Register(ms[c].buffers, fresh.buffers),
                     children |-> Register(ms[c].children, fresh.children)]
               ELSE r.m[i]],
      t |-> r.t]

----------------------------------------------------------------------------
(* The statements of clone() and clone_().                                 *)

\* std::make_shared<Derived>(self): the copy constructor duplicates the
\* three mappings; their entries still refer to the original's tensors
\* and children
ShallowCopy(m) == m

\* parameters_.clear(); buffers_.clear(); children_.clear()
Cleared(m) == [m EXCEPT !.params = Empty, !.buffers = Empty, !.children = Empty]

CountCheckInverted(a, b) == a # b
CountCheckAtLeast(a, b) == a >= b
CountCheckOff(a, b) == TRUE
\* AT_CHECK(copy->xs_.size() == xs_.size(), ...)
CountCheck(a, b) == a = b

CopyDataReversed(ts, dst, src) == [ts EXCEPT ![src] = ts[dst]]
CopyDataSkipped(ts, dst, src) == ts
\* dst.data().copy_(src.data(), non_blocking): dst's storage receives src's data
CopyData(ts, dst, src) == [ts EXCEPT ![dst] = ts[src]]

CastUnchecked(ms, self, clone) == TRUE
\* std::dynamic_pointer_cast<Derived>(other.clone()) != nullptr, Derived
\* being the concrete type of *this
CastOk(ms, self, clone) == ms[clone].type = ms[self].type

MoveAssignSkipped(ms, self, clone) == ms
\* static_cast<Derived&>(*this) = std::move(*clone): self takes over the
\* clone's mappings, the intermediate object is left moved-from
MoveAssign(ms, self, clone) ==
  [ms EXCEPT ![self] = [ms[clone] EXCEPT !.type = ms[self].type],
             ![clone] = Cleared(ms[clone])]

NextPcCopyFirst(pc) ==
  CASE pc = "construct" -> "clear"
    [] pc = "clear" -> "reset"
    [] pc = "reset" -> "copyParams"
    [] pc = "copyParams" -> "copyBuffers"
    [] pc = "copyBuffers" -> "checkParams"
    [] pc = "checkParams" -> "checkBuffers"
    [] pc = "checkBuffers" -> "checkChildren"
    [] pc = "checkChildren" -> "mergeChildren"
    [] OTHER -> "return"
\* the order of the statements of clone()
NextPc(pc) ==
  CASE pc = "construct" -> "clear"
    [] pc = "clear" -> "reset"
    [] pc = "reset" -> "checkParams"
    [] pc = "checkParams" -> "copyParams"
    [] pc = "copyParams" -> "checkBuffers"
    [] pc = "checkBuffers" -> "copyBuffers"
    [] pc = "copyBuffers" -> "checkChildren"
    [] pc = "checkChildren" -> "mergeChildren"
    [] OTHER -> "return"

Frame(kind, self, other, pc) ==
  [kind |-> kind, self |-> self, other |-> other, copy |-> 0, pc |-> pc,
   todo |-> {}, np |-> 0, nb |-> 0, nm |-> 0]

Top == stack[Len(stack)]

\* the names a loop of clone() iterates over: those of the original
TodoAt(pc, self) ==
  CASE pc = "copyParams" -> DOMAIN mods[self].params
    [] pc = "copyBuffers" -> DOMAIN mods[self].buffers
    [] pc = "mergeChildren" -> DOMAIN mods[self].children
    [] OTHER -> {}

\* the innermost call moves on to the statement after pc
Goto(pc) ==
  [Top EXCEPT !.pc = NextPc(pc), !.todo = TodoAt(NextPc(pc), Top.self)]
SetTop(f) == [stack EXCEPT ![Len(stack)] = f]
Pop == SubSeq(stack, 1, Len(stack) - 1)
AtClone(pc) == stack # <<>> /\ Top.kind = "clone" /\ Top.pc = pc
AtCloneUnderscore(pc) == stack # <<>> /\ Top.kind = "clone_" /\ Top.pc = pc

Errors == {"StructuralMismatch", "TypeMismatch", "NoSuchKey"}

RaiseNoAbort(kind, cat) ==
  /\ outcome' = kind
  /\ errCat' = cat
  /\ errCopies' = Top.np + Top.nb
  /\ errDepth' = Len(stack)
  /\ stack' = SetTop(IF Top.kind = "clone" THEN Goto(Top.pc) ELSE Top)
  /\ UNCHANGED <<mods, tens, result, callSrc, snapMods, snapTens, copied,
                 written, nclones, nwrites>>
\* A failed AT_CHECK throws; neither clone() nor clone_() catches, so every
\* active call is abandoned and the root call returns nothing.
Raise(kind, cat) ==
  /\ outcome' = kind
  /\ errCat' = cat
  /\ errCopies' = Top.np + Top.nb
  /\ errDepth' = Len(stack)
  /\ stack' = <<>>
  /\ result' = 0
  /\ UNCHANGED <<mods, tens, callSrc, snapMods, snapTens, copied,
                 written, nclones, nwrites>>

ghosts == <<callSrc, snapMods, snapTens, errCopies, errDepth, written, nclones, nwrites>>

\* A caller invokes m.clone(): first on the original, then on the clone it
\* was handed.  A failed clone() ends the behaviour: calling it again fails
\* the same way.
StartClone(m) ==
  /\ stack = <<>>
  /\ outcome \in {"idle", "ok"}
  /\ nclones < MaxClones
  /\ m = (IF result = 0 THEN 1 ELSE result)
  /\ stack' = <<Frame("clone", m, 0, "construct")>>
  /\ outcome' = "running"
  /\ errCat' = "none"
  /\ result' = 0
  /\ callSrc' = m
  /\ snapMods' = mods
  /\ snapTens' = tens
  /\ copied' = 0
  /\ errCopies' = 0
  /\ errDepth' = 0
  /\ written' = {}
  /\ nclones' = nclones + 1
  /\ UNCHANGED <<mods, tens, nwrites>>

\* auto copy = std::make_shared<Derived>(self)
MakeCopy ==
  /\ AtClone("construct")
  /\ mods' = Append(mods, ShallowCopy(mods[Top.self]))
  /\ stack' = SetTop([Goto("construct") EXCEPT !.copy = Len(mods) + 1])
  /\ UNCHANGED <<tens, outcome, errCat, result, copied>>
  /\ UNCHANGED ghosts

ClearCopy ==
  /\ AtClone("clear")
  /\ mods' = [mods EXCEPT ![Top.copy] = Cleared(@)]
  /\ stack' = SetTop(Goto("clear"))
  /\ UNCHANGED <<tens, outcome, errCat, result, copied>>
  /\ UNCHANGED ghosts

\* copy->reset()
Reset ==
  /\ AtClone("reset")
  /\ LET r == ResetInto(mods, tens, Top.copy)
     IN mods' = r.m /\ tens' = r.t
  /\ stack' = SetTop(Goto("reset"))
  /\ UNCHANGED <<outcome, errCat, result, copied>>
  /\ UNCHANGED ghosts

\* AT_CHECK(copy->parameters_.size() == parameters_.size(), ...)
CheckParams ==
  /\ AtClone("checkParams")
  /\ IF CountCheck(Size(mods[Top.copy].params), Size(mods[Top.self].params))
     THEN /\ stack' = SetTop(Goto("checkParams"))
          /\ UNCHANGED <<mods, tens, outcome, errCat, result, copied>>
          /\ UNCHANGED ghosts
     ELSE Raise("StructuralMismatch", "parameters")

\* for (parameter : parameters_) copy->parameters_[key].data().copy_(...)
CopyParams ==
  /\ AtClone("copyParams")
  /\ IF Top.todo = {}
     THEN /\ stack' = SetTop(Goto("copyParams"))
          /\ UNCHANGED <<mods, tens, outcome, errCat, result, copied>>
          /\ UNCHANGED ghosts
     ELSE \E n \in Top.todo :
            IF HasKey(mods[Top.copy].params, n)
            THEN /\ tens' = CopyData(tens, mods[Top.copy].params[n],
                                     mods[Top.self].params[n])
                 /\ stack' = SetTop([Top EXCEPT !.todo = @ \ {n}, !.np = @ + 1])
                 /\ copied' = copied + 1
                 /\ UNCHANGED <<mods, outcome, errCat, result>>
                 /\ UNCHANGED ghosts
            ELSE Raise("NoSuchKey", "parameters")

\* AT_CHECK(copy->buffers_.size() == buffers_.size(), ...)
CheckBuffers ==
  /\ AtClone("checkBuffers")
  /\ IF CountCheck(Size(mods[Top.copy].buffers), Size(mods[Top.self].buffers))
     THEN /\ stack' = SetTop(Goto("checkBuffers"))
          /\ UNCHANGED <<mods, tens, outcome, errCat, result, copied>>
          /\ UNCHANGED ghosts
     ELSE Raise("StructuralMismatch", "buffers")

\* for (buffer : buffers_) copy->buffers_[key].data().copy_(...)
CopyBuffers ==
  /\ AtClone("copyBuffers")
  /\ IF Top.todo = {}
     THEN /\ stack' = SetTop(Goto("copyBuffers"))
          /\ UNCHANGED <<mods, tens, outcome, errCat, result, copied>>
          /\ UNCHANGED ghosts
     ELSE \E n \in Top.todo :
            IF HasKey(mods[Top.copy].buffers, n)
            THEN /\ tens' = CopyData(tens, mods[Top.copy].buffers[n],
                                     mods[Top.self].buffers[n])
                 /\ stack' = SetTop([Top EXCEPT !.todo = @ \ {n}, !.nb = @ + 1])
                 /\ copied' = copied + 1
                 /\ UNCHANGED <<mods, outcome, errCat, result>>
                 /\ UNCHANGED ghosts
            ELSE Raise("NoSuchKey", "buffers")

\* AT_CHECK(copy->children_.size() == children_.size(), ...)
CheckChildren ==
  /\ AtClone("checkChildren")
  /\ IF CountCheck(Size(mods[Top.copy].children), Size(mods[Top.self].children))
     THEN /\ stack' = SetTop(Goto("checkChildren"))
          /\ UNCHANGED <<mods, tens, outcome, errCat, result, copied>>
          /\ UNCHANGED ghosts
     ELSE Raise("StructuralMismatch", "children")

\* for (child : children_) copy->children_[key]->clone_(*child.value):
\* enter clone_() on the copy's child with the original's child as `other`
MergeChildren ==
  /\ AtClone("mergeChildren")
  /\ IF Top.todo = {}
     THEN /\ stack' = SetTop(Goto("mergeChildren"))
          /\ UNCHANGED <<mods, tens, outcome, errCat, result, copied>>
          /\ UNCHANGED ghosts
     ELSE \E c \in Top.todo :
            IF HasKey(mods[Top.copy].children, c)
            THEN /\ stack' = Append(SetTop([Top EXCEPT !.todo = @ \ {c}, !.nm = @ + 1]),
                                    Frame("clone_", mods[Top.copy].children[c],
                                          mods[Top.self].children[c], "call"))
                 /\ UNCHANGED <<mods, tens, outcome, errCat, result, copied>>
                 /\ UNCHANGED ghosts
            ELSE Raise("NoSuchKey", "children")

\* clone_(): other.clone(), dispatched on other's concrete type
CallOtherClone ==
  /\ AtCloneUnderscore("call")
  /\ stack' = Append(SetTop([Top EXCEPT !.pc = "wait"]),
                     Frame("clone", Top.other, 0, "construct"))
  /\ UNCHANGED <<mods, tens, outcome, errCat, result, copied>>
  /\ UNCHANGED ghosts

\* return copy: to the caller of the root call, or into the waiting clone_()
ReturnCopy ==
  /\ AtClone("return")
  /\ IF Len(stack) = 1
     THEN /\ stack' = <<>>
          /\ outcome' = "ok"
          /\ result' = Top.copy
     ELSE /\ stack' = [Pop EXCEPT ![Len(stack) - 1] =
                         [@ EXCEPT !.copy = Top.copy, !.pc = "cast"]]
          /\ UNCHANGED <<outcome, result>>
  /\ UNCHANGED <<mods, tens, errCat, copied>>
  /\ UNCHANGED ghosts

\* clone_(): the checked downcast, then the move assignment into *this
CastAndMove ==
  /\ AtCloneUnderscore("cast")
  /\ IF CastOk(mods, Top.self, Top.copy)
     THEN /\ mods' = MoveAssign(mods, Top.self, Top.copy)
          /\ stack' = Pop
          /\ UNCHANGED <<tens, outcome, errCat, result, copied>>
          /\ UNCHANGED ghosts
     ELSE Raise("TypeMismatch", "none")

\* After a successful clone() the user writes a tensor of the original or of
\* the clone it was handed.
LiveTensors == TensorsOf(mods, 1) \cup (IF result = 0 THEN {} ELSE TensorsOf(mods, result))

WriteTensor(t, v) ==
  /\ stack = <<>>
  /\ outcome = "ok"
  /\ nwrites < MaxWrites
  /\ t \in LiveTensors
  /\ v # tens[t]
  /\ tens' = [tens EXCEPT ![t] = v]
  /\ written' = written \cup {t}
  /\ nwrites' = nwrites + 1
  /\ UNCHANGED <<mods, stack, outcome, errCat, result, callSrc, snapMods,
                 snapTens, copied, errCopies, errDepth, nclones>>

Next ==
  \/ \E m \in 1..Len(mods) : StartClone(m)
  \/ MakeCopy
  \/ ClearCopy
  \/ Reset
  \/ CheckParams
  \/ CopyParams
  \/ CheckBuffers
  \/ CopyBuffers
  \/ CheckChildren
  \/ MergeChildren
  \/ CallOtherClone
  \/ ReturnCopy
  \/ CastAndMove
  \/ \E t \in 1..Len(tens) : \E v \in 0..MaxVal : WriteTensor(t, v)

Spec == Init /\ [][Next]_vars

----------------------------------------------------------------------------
(* Vocabulary of the properties.                                           *)

Finished == outcome \in {"ok"} \cup Errors

ChildNames(t) == DOMAIN ResetChildren(t)

\* reset() of every module of the tree rooted at i re-registers exactly the
\* parameter, buffer and child names the module has
RECURSIVE NamesOK(_, _)
NamesOK(ms, i) ==
  /\ DOMAIN ms[i].params = ResetParams(ms[i].type)
  /\ DOMAIN ms[i].buffers = ResetBuffers(ms[i].type)
  /\ DOMAIN ms[i].children = ChildNames(ms[i].type)
  /\ \A c \in DOMAIN ms[i].children : NamesOK(ms, ms[i].children[c])

\* reset() of every module of the tree rooted at i registers each child with
\* the concrete type the module's child has
RECURSIVE TypesOK(_, _)
TypesOK(ms, i) ==
  \A c \in DOMAIN ms[i].children :
    /\ c \in ChildNames(ms[i].type)
    /\ ms[ms[i].children[c]].type = ResetChildren(ms[i].type)[c]
    /\ TypesOK(ms, ms[i].children[c])

SameNameSets(a, b) ==
  /\ DOMAIN a.params = DOMAIN b.params
  /\ DOMAIN a.buffers = DOMAIN b.buffers
  /\ DOMAIN a.children = DOMAIN b.children

\* same name sets at every depth: c in the heap, s in the snapshot
RECURSIVE SameNamesDeep(_, _)
SameNamesDeep(c, s) ==
  /\ SameNameSets(mods[c], snapMods[s])
  /\ \A n \in DOMAIN snapMods[s].children :
       SameNamesDeep(mods[c].children[n], snapMods[s].children[n])

\* tensor b holds what tensor a held when clone() was called (unless the
\* user has written b since)
HoldsDataOf(b, a) == b \in written \/ tens[b] = snapTens[a]

\* the tree rooted at c is a copy of what the tree rooted at s was when
\* clone() was called: types, names and tensor data, at every depth
RECURSIVE CopyOf(_, _)
CopyOf(c, s) ==
  /\ mods[c].type = snapMods[s].type
  /\ SameNameSets(mods[c], snapMods[s])
  /\ \A n \in DOMAIN snapMods[s].params :
       HoldsDataOf(mods[c].params[n], snapMods[s].params[n])
  /\ \A n \in DOMAIN snapMods[s].buffers :
       HoldsDataOf(mods[c].buffers[n], snapMods[s].buffers[n])
  /\ \A n \in DOMAIN snapMods[s].children :
       CopyOf(mods[c].children[n], snapMods[s].children[n])

CloneFrames == {i \in 1..Len(stack) : stack[i].kind = "clone"}

ParamCountsAgree(f) == Size(mods[f.copy].params) = Size(mods[f.self].params)
BufferCountsAgree(f) == Size(mods[f.copy].buffers) = Size(mods[f.self].buffers)
ChildCountsAgree(f) == Size(mods[f.copy].children) = Size(mods[f.self].children)

----------------------------------------------------------------------------
(* C1 as stated: whenever reset() re-registers exactly the names every     *)
(* module of the tree had, clone() returns successfully with the same      *)
(* parameter, buffer and child name sets.  (Refuted: the names can agree   *)
(* while reset() registers a child of another concrete type.)              *)
C1_NamesSuffice ==
  (Finished /\ NamesOK(snapMods, callSrc))
    => (outcome = "ok" /\ SameNameSets(mods[result], snapMods[callSrc]))

(* C1 amended: whenever reset() re-registers exactly the names every       *)
(* module of the tree had, and each child with the concrete type it had,   *)
(* clone() returns successfully and the returned module has the same       *)
(* parameter, buffer and child name sets as the original.                  *)
C1_CloneKeepsNameSets ==
  (Finished /\ NamesOK(snapMods, callSrc) /\ TypesOK(snapMods, callSrc))
    => (outcome = "ok" /\ SameNameSets(mods[result], snapMods[callSrc]))

C1_Witness ==
  /\ outcome = "ok"
  /\ NamesOK(snapMods, callSrc) /\ TypesOK(snapMods, callSrc)
  /\ DOMAIN mods[result].children = {CName, CName2}

(* C2: after a successful clone(), for every parameter and buffer name n   *)
(* of the original the clone's tensor n has a storage of its own and holds *)
(* the value the original's tensor n had when clone() was called; a later  *)
(* write to one of the two leaves the other at that value.                 *)
C2_CopiedAndIndependent ==
  outcome = "ok" =>
    /\ \A n \in DOMAIN snapMods[callSrc].params :
         /\ n \in DOMAIN mods[result].params
         /\ LET a == snapMods[callSrc].params[n]
                b == mods[result].params[n]
            IN /\ a # b
               /\ b \notin written => tens[b] = snapTens[a]
               /\ a \notin written => tens[a] = snapTens[a]
    /\ \A n \in DOMAIN snapMods[callSrc].buffers :
         /\ n \in DOMAIN mods[result].buffers
         /\ LET a == snapMods[callSrc].buffers[n]
                b == mods[result].buffers[n]
            IN /\ a # b
               /\ b \notin written => tens[b] = snapTens[a]
               /\ a \notin written => tens[a] = snapTens[a]

\* the clone's weight has been written; the original's weight has not
C2_Witness ==
  /\ outcome = "ok"
  /\ "weight" \in DOMAIN mods[result].params
  /\ mods[result].params["weight"] \in written
  /\ mods[callSrc].params["weight"] \notin written
  /\ tens[mods[result].params["weight"]] # tens[mods[callSrc].params["weight"]]

(* C3 as stated: within one clone() call no parameter or buffer copy_ is   *)
(* performed unless all three count checks pass; a clone() that fails on   *)
(* the buffer count or the child count has copied nothing.  (Refuted: the  *)
(* checks are interleaved with the copies.)                                *)
C3_AllChecksBeforeAnyCopy ==
  /\ \A i \in CloneFrames :
       stack[i].np + stack[i].nb > 0 =>
         /\ ParamCountsAgree(stack[i])
         /\ BufferCountsAgree(stack[i])
         /\ ChildCountsAgree(stack[i])
  /\ (outcome = "StructuralMismatch" /\ errCat \in {"buffers", "children"})
       => errCopies = 0

(* C3 amended: within one clone() call each count check passes before the  *)
(* step of its own category: the parameter-count check before any          *)
(* parameter copy_, the buffer-count check before any buffer copy_, the    *)
(* child-count check before any child merge.                               *)
C3_EachCheckBeforeItsCopies ==
  \A i \in CloneFrames :
    /\ stack[i].np > 0 => ParamCountsAgree(stack[i])
    /\ stack[i].nb > 0 => BufferCountsAgree(stack[i])
    /\ stack[i].nm > 0 => ChildCountsAgree(stack[i])

\* a clone() that failed on the buffer count after copying parameter data
C3_Witness ==
  /\ outcome = "StructuralMismatch"
  /\ errCat = "buffers"
  /\ errCopies > 0

(* C4: if reset() registers a number of parameters different from the      *)
(* original's, clone() fails with StructuralMismatch naming parameters and *)
(* has performed no copy_: no call gets past the parameter-count check     *)
(* with differing counts, the root call ends in that error, and the        *)
(* failing call has copied nothing.                                        *)
C4_ParamCountMismatchFails ==
  /\ \A i \in CloneFrames :
       stack[i].pc \notin {"construct", "clear", "reset", "checkParams"}
         => ParamCountsAgree(stack[i])
  /\ (Finished /\ Size(snapMods[callSrc].params)
                    # Cardinality(ResetParams(snapMods[callSrc].type)))
       => (outcome = "StructuralMismatch" /\ errCat = "parameters" /\ copied = 0)
  /\ (outcome = "StructuralMismatch" /\ errCat = "parameters") => errCopies = 0

\* a module with two parameters whose reset() registers one
C4_Witness ==
  /\ outcome = "StructuralMismatch"
  /\ errCat = "parameters"
  /\ snapMods[callSrc].type = "BatchNorm"
  /\ Size(snapMods[callSrc].params) = 2

(* C5 as stated: whenever a child merge clone_() runs on a child whose     *)
(* concrete type is not the type of the original's child, the error that   *)
(* ends it is TypeMismatch.  (Refuted: clone_() first clones the           *)
(* original's child, and that clone() can fail on its own.)                *)
C5_MismatchedMergeEndsInTypeMismatch ==
  [][(/\ outcome = "running"
      /\ outcome' \in Errors
      /\ \E i \in 1..Len(stack) :
           /\ stack[i].kind = "clone_"
           /\ mods[stack[i].self].type # mods[stack[i].other].type)
       => outcome' = "TypeMismatch"]_vars

(* C5 amended: during clone() of a parent, if the concrete type of the     *)
(* original's child is not the concrete type of the child reset()          *)
(* registered under that name, then once the original child's own clone()  *)
(* has returned inside clone_(), clone_() fails with TypeMismatch, the new *)
(* instance's child is not overwritten, and every enclosing clone() fails  *)
(* with that error.                                                        *)
C5_TypeMismatchOnCast ==
  [][(/\ AtCloneUnderscore("cast")
      /\ mods[Top.copy].type # mods[Top.self].type)
       => (/\ outcome' = "TypeMismatch"
           /\ stack' = <<>>
           /\ result' = 0
           /\ mods' = mods)]_vars

\* the cast failed in a clone_() called by the root clone(), after the
\* original's child had been cloned
C5_Witness ==
  /\ outcome = "TypeMismatch"
  /\ errDepth = 2
  /\ copied > 0

(* C6: clone() never mutates the source tree: at every step of a clone()   *)
(* call and after it, whatever its outcome, every module of the tree       *)
(* clone() was called on has the mappings it had at the call, and every    *)
(* tensor of that tree the user has not written since holds the data it    *)
(* held at the call.                                                       *)
C6_SourceUnchanged ==
  /\ \A i \in Desc(snapMods, callSrc) : mods[i] = snapMods[i]
  /\ \A t \in TensorsOf(snapMods, callSrc) \ written : tens[t] = snapTens[t]

\* inside the clone() of a child, after data has been copied
C6_Witness ==
  /\ Len(stack) = 3
  /\ copied > 0
  /\ Top.np + Top.nb > 0

(* C7: after a successful clone(), every child of the clone is a copy of   *)
(* the original's child of that name, at every depth: same concrete type,  *)
(* same names, tensors holding the original's data, and no module object   *)
(* or tensor storage of the clone tree belongs to the source tree.         *)
C7_ChildrenAreClones ==
  outcome = "ok" =>
    /\ DOMAIN mods[result].children = DOMAIN snapMods[callSrc].children
    /\ \A c \in DOMAIN snapMods[callSrc].children :
         CopyOf(mods[result].children[c], snapMods[callSrc].children[c])
    /\ Desc(mods, result) \cap Desc(mods, callSrc) = {}
    /\ TensorsOf(mods, result) \cap TensorsOf(mods, callSrc) = {}

\* the clone has a child whose tensors hold data other than reset()'s
C7_Witness ==
  /\ outcome = "ok"
  /\ written = {}
  /\ CName \in DOMAIN mods[result].children
  /\ \E t \in TensorsOf(mods, mods[result].children[CName]) : tens[t] # FreshVal

(* C8: for a tree M with a correct reset() (names and child types),        *)
(* clone() applied to clone(M) succeeds and yields a tree with the types,  *)
(* names and tensor data of clone(M) at every depth.                       *)
C8_CloneOfClone ==
  (Finished /\ callSrc # 1 /\ NamesOK(mods, 1) /\ TypesOK(mods, 1))
    => (outcome = "ok" /\ CopyOf(result, callSrc))

\* a clone with a child was written and then cloned
C8_Witness ==
  /\ outcome = "ok"
  /\ callSrc # 1
  /\ nwrites > 0
  /\ written = {}
  /\ CName \in DOMAIN mods[result].children

FailingCheckAtTop ==
  \/ AtClone("checkParams") /\ ~ParamCountsAgree(Top)
  \/ AtClone("checkBuffers") /\ ~BufferCountsAgree(Top)
  \/ AtClone("checkChildren") /\ ~ChildCountsAgree(Top)
  \/ AtCloneUnderscore("cast") /\ mods[Top.copy].type # mods[Top.self].type

(* C9: a failed check aborts clone() at once and returns no module: the    *)
(* step at a failing count check or cast raises, abandons every enclosing  *)
(* clone() and clone_() call without touching a module or a tensor, and    *)
(* leaves no result; after the error no step of the call runs.             *)
C9_FailureAborts ==
  [][/\ FailingCheckAtTop
          => (/\ outcome' \in {"StructuralMismatch", "TypeMismatch"}
              /\ stack' = <<>>
              /\ result' = 0
              /\ mods' = mods
              /\ tens' = tens)
     /\ outcome \in Errors
          => (/\ stack = <<>>
              /\ result = 0
              /\ UNCHANGED <<mods, tens, stack, outcome, result>>)]_vars

\* the check failed in the clone() of a child
C9_Witness ==
  /\ outcome \in {"StructuralMismatch", "TypeMismatch"}
  /\ errDepth >= 3

====
